---------------------------- MODULE Spec2Model ----------------------------
(***************************************************************************)
(* A model of appstream/component.py: the entity records (Checksum,        *)
(* Review, Release, Image, Screenshot, Provide, Require, Component), the   *)
(* add-with-dedup operations, the parser, the validator and the            *)
(* serializer.                                                             *)
(*                                                                         *)
(* Representation.  A Python str is a sequence of one-token strings        *)
(* ("0", "x", "A", " ", "\n", or an opaque multi-character token such as   *)
(* "CC0-1.0" where only equality matters).  The empty str is << >>.        *)
(* Python's None is the value None below, which no str equals.  A Python   *)
(* object is a record; its identity is the field oid, drawn from the       *)
(* allocation counter nextOid, so that object equality (the default ==     *)
(* of a class without __eq__) is equality of oid.  A list is a sequence,   *)
(* a dict a sequence of [key, value] records in insertion order.           *)
(***************************************************************************)
EXTENDS Integers, Sequences, FiniteSets, TLC

VARIABLES
    app,      \* the Component under work
    nextOid,  \* identity of the next object constructed
    last      \* the last operation: its name, input, outcome and output

vars == <<app, nextOid, last>>

---------------------------------------------------------------------------
(* Bounds of the model *)

\* objects constructed before the last constructing operation of a
\* behaviour of the whole program
MaxObjects == 2
\* objects constructed in a behaviour of the add operations alone
MaxAdded == 4
\* releases a Component drawn for the validator may hold
MaxReleases == 2
\* scalar children (<name>, <summary>, ...) of a drawn document
MaxChildren == 3

\* the longest version attribute of a <release> in SpecReleaseParse
MaxVersionLen == 4
\* entries of a list that parse appends to without a check (kudos,
\* keywords, categories, the icons of one type)
MaxAppends == 1

---------------------------------------------------------------------------
(* Python values *)

None == <<"None", "None">>

\* bool(x) of a str-or-None value: `if self.id`, `not self.name`
Truthy(s) == s # None /\ s # << >>

\* an opaque text of one token
Str(a) == <<a>>

\* the sequence s without its element at index i
RemoveAt(s, i) == SubSeq(s, 1, i - 1) \o SubSeq(s, i + 1, Len(s))

\* the least element of a non-empty set of integers
Min(S) == CHOOSE m \in S : \A n \in S : m <= n

---------------------------------------------------------------------------
(* str and int operations of Python used by the parser and the serializer *)

Whitespace == {" ", "\n", "\t"}

HexLower == <<"0", "1", "2", "3", "4", "5", "6", "7", "8", "9",
              "a", "b", "c", "d", "e", "f">>

HexUpper == <<"0", "1", "2", "3", "4", "5", "6", "7", "8", "9",
              "A", "B", "C", "D", "E", "F">>

\* the digits of a base: the first `base` entries of the tables above
IsDigit(c, base) ==
    \E i \in 1..base : HexLower[i] = c \/ HexUpper[i] = c

DigitValue(c) ==
    (CHOOSE i \in 1..16 : HexLower[i] = c \/ HexUpper[i] = c) - 1

\* str.strip(): without leading and trailing whitespace
RECURSIVE LStrip(_)
LStrip(s) ==
    IF s # << >> /\ Head(s) \in Whitespace THEN LStrip(Tail(s)) ELSE s

RECURSIVE RStrip(_)
RStrip(s) ==
    IF s # << >> /\ s[Len(s)] \in Whitespace
    THEN RStrip(SubSeq(s, 1, Len(s) - 1))
    ELSE s

Strip(s) == RStrip(LStrip(s))

\* str.startswith(prefix)
StartsWith(s, prefix) ==
    Len(s) >= Len(prefix) /\ SubSeq(s, 1, Len(prefix)) = prefix

\* str.lower(), on the letters of the model's alphabet
LowerChar(c) ==
    IF \E i \in 11..16 : HexUpper[i] = c
    THEN HexLower[CHOOSE i \in 11..16 : HexUpper[i] = c]
    ELSE IF c = "X" THEN "x" ELSE c

Lower(s) == [i \in 1..Len(s) |-> LowerChar(s[i])]

\* the value of a non-empty run of digits, most significant first
RECURSIVE DigitsValue(_, _)
DigitsValue(ds, base) ==
    IF ds = << >> THEN 0
    ELSE DigitsValue(SubSeq(ds, 1, Len(ds) - 1), base) * base
            + DigitValue(ds[Len(ds)])

\* the literal int() reads: whitespace stripped, then an optional sign
IntBody(s) ==
    LET t == Strip(s)
    IN  IF t # << >> /\ Head(t) \in {"+", "-"} THEN Tail(t) ELSE t

IntNegative(s) ==
    LET t == Strip(s) IN t # << >> /\ Head(t) = "-"

\* base 16 accepts a 0x or 0X prefix before the digits
IntDigits(s, base) ==
    LET b == IntBody(s)
    IN  IF base = 16 /\ (StartsWith(b, <<"0", "x">>) \/ StartsWith(b, <<"0", "X">>))
        THEN SubSeq(b, 3, Len(b))
        ELSE b

\* int(s, base) returns: otherwise it raises ValueError
IsInt(s, base) ==
    LET ds == IntDigits(s, base)
    IN  ds # << >> /\ \A i \in 1..Len(ds) : IsDigit(ds[i], base)

\* int(s, base), for s with IsInt(s, base)
IntOf(s, base) ==
    LET v == DigitsValue(IntDigits(s, base), base)
    IN  IF IntNegative(s) THEN 0 - v ELSE v

\* str(n), '%i' % n: the decimal digits of n
RECURSIVE NatStr(_)
NatStr(n) ==
    IF n < 10 THEN <<HexLower[n + 1]>>
    ELSE NatStr(n \div 10) \o <<HexLower[(n % 10) + 1]>>

IntStr(n) == IF n < 0 THEN <<"-">> \o NatStr(0 - n) ELSE NatStr(n)

\* '%s' % v: a str as it is, None as the text None
Fmt(v) == IF v = None THEN <<"None">> ELSE v

\* the lines of a text: str.split('\n')
RECURSIVE SplitLines(_)
SplitLines(s) ==
    LET nl == {i \in 1..Len(s) : s[i] = "\n"}
    IN  IF nl = {} THEN <<s>>
        ELSE <<SubSeq(s, 1, Min(nl) - 1)>>
                \o SplitLines(SubSeq(s, Min(nl) + 1, Len(s)))

\* the texts of a sequence joined with a separator
RECURSIVE Join(_, _)
Join(parts, sep) ==
    IF parts = << >> THEN << >>
    ELSE IF Len(parts) = 1 THEN parts[1]
    ELSE parts[1] \o sep \o Join(Tail(parts), sep)

\* utils._join_lines: each line trimmed, the non-empty ones joined by one
\* space; a missing text gives the empty str
_join_lines(txt) ==
    LET lines    == IF txt = None THEN << >> ELSE SplitLines(txt)
        stripped == [i \in 1..Len(lines) |-> Strip(lines[i])]
        NonEmpty(l) == l # << >>
    IN  Join(SelectSeq(stripped, NonEmpty), <<" ">>)

\* seconds since the epoch of the two dates the tests read, in the zone the
\* tests ran in
Epoch20160225 == 1456358400
Epoch20160915 == 1473894000

\* dateutil.parser.parse(date) returns: otherwise it raises ValueError.
\* The dates read are those of the tests, as a day or as isoformat() writes
\* them.
IsDate(date) ==
    date \in {Str("2016-02-25"), Str("2016-09-15"),
              Str("2016-02-25T00:00:00"), Str("2016-09-15T00:00:00")}

\* int(dateutil.parser.parse(date).strftime("%s")), for date with IsDate
DateEpoch(date) ==
    IF date \in {Str("2016-02-25"), Str("2016-02-25T00:00:00")}
    THEN Epoch20160225 ELSE Epoch20160915

---------------------------------------------------------------------------
(* Constructors: the defaults set by each __init__ *)

Checksum(oid) ==
    [oid |-> oid, kind |-> Str("sha1"), target |-> None, value |-> None,
     filename |-> None]

Review(oid) ==
    [oid |-> oid, id |-> None, summary |-> None, description |-> None,
     locale |-> None, karma |-> 0, score |-> 0, rating |-> 0,
     version |-> None, reviewer_id |-> None, reviewer_name |-> None,
     date |-> None, metadata |-> << >>]

Release(oid) ==
    [oid |-> oid, version |-> None, description |-> None, timestamp |-> 0,
     checksums |-> << >>, location |-> None, size_installed |-> 0,
     size_download |-> 0, urgency |-> None]

Image(oid) ==
    [oid |-> oid, kind |-> None, width |-> 0, height |-> 0, url |-> None]

Screenshot(oid) ==
    [oid |-> oid, kind |-> None, caption |-> None, images |-> << >>]

Provide(oid) == [oid |-> oid, kind |-> None, value |-> None]

Require(oid) ==
    [oid |-> oid, kind |-> None, compare |-> None, version |-> None,
     value |-> None]

Component ==
    [id |-> None, update_contact |-> None, kind |-> None,
     provides |-> << >>, requires |-> << >>, name |-> None,
     pkgname |-> None, summary |-> None, description |-> None,
     urls |-> << >>, icons |-> << >>, metadata_license |-> None,
     project_license |-> None, developer_name |-> None,
     releases |-> << >>, reviews |-> << >>, screenshots |-> << >>,
     kudos |-> << >>, keywords |-> << >>, categories |-> << >>,
     custom |-> << >>, bundle |-> << >>]

---------------------------------------------------------------------------
(* Add-with-dedup operations *)

\* list.remove(x): drop the first element equal to x (equal: the same object)
ListRemove(list, x) ==
    LET same == {i \in 1..Len(list) : list[i].oid = x.oid}
    IN  IF same = {} THEN list ELSE RemoveAt(list, Min(same))

\* a lookup that returns the first checksum, whatever its target
get_checksum_by_target_first(self, target) ==
    IF self.checksums = << >> THEN None ELSE self.checksums[1]

\* Release.get_checksum_by_target
get_checksum_by_target(self, target) ==
    LET hit == {i \in 1..Len(self.checksums) : self.checksums[i].target = target}
    IN  IF hit = {} THEN None ELSE self.checksums[Min(hit)]

\* add_checksum that keeps the checksum of the same target
add_checksum_append(self, csum) ==
    [self EXCEPT !.checksums = Append(@, csum)]

\* add_checksum that puts the new checksum where the old one was
add_checksum_inplace(self, csum) ==
    LET hit == {i \in 1..Len(self.checksums) :
                    self.checksums[i].target = csum.target}
    IN  IF hit = {} THEN [self EXCEPT !.checksums = Append(@, csum)]
        ELSE [self EXCEPT !.checksums[Min(hit)] = csum]

\* Release.add_checksum: remove the first checksum of the same target, append
add_checksum(self, csum) ==
    LET hit == {i \in 1..Len(self.checksums) :
                    self.checksums[i].target = csum.target}
        kept == IF hit = {} THEN self.checksums
                ELSE ListRemove(self.checksums, self.checksums[Min(hit)])
    IN  [self EXCEPT !.checksums = Append(kept, csum)]

\* Screenshot.get_image_by_kind
get_image_by_kind(self, kind) ==
    LET hit == {i \in 1..Len(self.images) : self.images[i].kind = kind}
    IN  IF hit = {} THEN None ELSE self.images[Min(hit)]

\* Screenshot.add_image: remove the first image of the same kind, append
add_image(self, im) ==
    LET hit == {i \in 1..Len(self.images) : self.images[i].kind = im.kind}
        kept == IF hit = {} THEN self.images
                ELSE ListRemove(self.images, self.images[Min(hit)])
    IN  [self EXCEPT !.images = Append(kept, im)]

\* add_release without its check: every release is appended
add_release_always(self, release) ==
    [self EXCEPT !.releases = Append(@, release)]

\* Component.add_release: return if a release has the version, else append
add_release(self, release) ==
    IF \E i \in 1..Len(self.releases) :
            self.releases[i].version = release.version
    THEN self
    ELSE [self EXCEPT !.releases = Append(@, release)]

\* add_review without its check: every review is appended
add_review_always(self, review) ==
    [self EXCEPT !.reviews = Append(@, review)]

\* Component.add_review: return if a review has the id, else append
add_review(self, review) ==
    IF \E i \in 1..Len(self.reviews) : self.reviews[i].id = review.id
    THEN self
    ELSE [self EXCEPT !.reviews = Append(@, review)]

\* Component.add_screenshot: `screenshot in self.screenshots` compares
\* objects, Screenshot defining no __eq__
add_screenshot(self, screenshot) ==
    IF \E i \in 1..Len(self.screenshots) :
            self.screenshots[i].oid = screenshot.oid
    THEN self
    ELSE [self EXCEPT !.screenshots = Append(@, screenshot)]

\* Component.add_provide: return if a provide has the value, else append
add_provide(self, provide) ==
    IF \E i \in 1..Len(self.provides) :
            self.provides[i].value = provide.value
    THEN self
    ELSE [self EXCEPT !.provides = Append(@, provide)]

\* Component.add_require: return if a require has the value, else append
add_require(self, require) ==
    IF \E i \in 1..Len(self.requires) :
            self.requires[i].value = require.value
    THEN self
    ELSE [self EXCEPT !.requires = Append(@, require)]

\* Component.get_provides_by_kind
get_provides_by_kind(self, kind) ==
    LET OfKind(p) == p.kind = kind IN SelectSeq(self.provides, OfKind)

\* Component.get_require_by_kind
get_require_by_kind(self, kind, value) ==
    LET hit == {i \in 1..Len(self.requires) :
                    self.requires[i].kind = kind /\ self.requires[i].value = value}
    IN  IF hit = {} THEN None ELSE self.requires[Min(hit)]

\* the add operation of a name, called on self with x
CallAdd(add, self, x) ==
    IF add = "add_checksum" THEN add_checksum(self, x)
    ELSE IF add = "add_image" THEN add_image(self, x)
    ELSE IF add = "add_release" THEN add_release(self, x)
    ELSE IF add = "add_review" THEN add_review(self, x)
    ELSE IF add = "add_screenshot" THEN add_screenshot(self, x)
    ELSE IF add = "add_provide" THEN add_provide(self, x)
    ELSE add_require(self, x)

\* the constructor of a class
New(class, oid) ==
    IF class = "Checksum" THEN Checksum(oid)
    ELSE IF class = "Image" THEN Image(oid)
    ELSE IF class = "Release" THEN Release(oid)
    ELSE IF class = "Review" THEN Review(oid)
    ELSE IF class = "Screenshot" THEN Screenshot(oid)
    ELSE IF class = "Provide" THEN Provide(oid)
    ELSE Require(oid)

\* the natural key an add operation compares: the version of a release, the
\* id of a review, the value of a provide or require, the target of a
\* checksum, the kind of an image; a screenshot is compared as an object
KeyFor(add, x) ==
    IF add = "add_release" THEN x.version
    ELSE IF add = "add_review" THEN x.id
    ELSE IF add \in {"add_provide", "add_require"} THEN x.value
    ELSE IF add = "add_checksum" THEN x.target
    ELSE IF add = "add_image" THEN x.kind
    ELSE <<x.oid>>

---------------------------------------------------------------------------
(* Element trees, as xml.etree.ElementTree gives them *)

AttrNames ==
    {"type", "timestamp", "date", "urgency", "version", "filename", "target",
     "width", "height", "compare", "key", "id", "karma", "score", "rating",
     "runtime", "sdk", "value"}

\* node.attrib: each attribute's value, None for an attribute not present
NoAttrs == [a \in AttrNames |-> None]

\* an attrib dict from a record of the attributes present
Attrs(given) ==
    [a \in AttrNames |-> IF a \in DOMAIN given THEN given[a] ELSE None]

\* 'name' in node.attrib
HasAttr(node, name) == node.attrib[name] # None

Element(tag, attrib, text, children) ==
    [tag |-> tag, attrib |-> attrib, text |-> text, children |-> children]

\* dict[key] = value: the key keeps its place if present, else goes last
DictSet(dict, key, value) ==
    LET at == {i \in 1..Len(dict) : dict[i].key = key}
    IN  IF at = {} THEN Append(dict, [key |-> key, value |-> value])
        ELSE [dict EXCEPT ![Min(at)].value = value]

\* dict.get(key, default)
DictGet(dict, key, default) ==
    LET at == {i \in 1..Len(dict) : dict[i].key = key}
    IN  IF at = {} THEN default ELSE dict[Min(at)].value

\* utils._parse_desc: bare text is wrapped in one <p>; <p>, <ul>, <ol> and
\* their <li> are written back without whitespace between the tags
ParseDescItems(items) ==
    LET li == SelectSeq(items, LAMBDA c : c.tag = "li")
    IN  Join([i \in 1..Len(li) |->
                <<"<li>">> \o _join_lines(li[i].text) \o <<"</li>">>], << >>)

ParseDescBlock(n) ==
    IF n.tag = "p"
    THEN <<"<p>">> \o _join_lines(n.text) \o <<"</p>">>
    ELSE IF n.tag = "ul"
    THEN <<"<ul>">> \o ParseDescItems(n.children) \o <<"</ul>">>
    ELSE IF n.tag = "ol"
    THEN <<"<ol>">> \o ParseDescItems(n.children) \o <<"</ol>">>
    ELSE << >>

_parse_desc(node) ==
    IF node.children = << >>
    THEN <<"<p>">> \o _join_lines(node.text) \o <<"</p>">>
    ELSE Join([i \in 1..Len(node.children) |->
                  ParseDescBlock(node.children[i])], << >>)

---------------------------------------------------------------------------
(* The parser.  A parse step takes and gives a state                       *)
(*   [obj: the object being filled, oid: the next identity,                *)
(*    exc: the exception raised so far, "" for none];                      *)
(* once exc is set the remaining steps are skipped, as the exception       *)
(* leaves the method.                                                      *)

NoExc == ""

PState(obj, oid, exc) == [obj |-> obj, oid |-> oid, exc |-> exc]

\* self.field = value
SetField(st, field, value) ==
    IF st.exc # NoExc THEN st ELSE [st EXCEPT !.obj[field] = value]

\* self.field = int(text): TypeError for None, ValueError for a non-number
SetInt(st, field, text) ==
    IF st.exc # NoExc THEN st
    ELSE IF text = None THEN [st EXCEPT !.exc = "TypeError"]
    ELSE IF ~IsInt(text, 10) THEN [st EXCEPT !.exc = "ValueError"]
    ELSE [st EXCEPT !.obj[field] = IntOf(text, 10)]

\* if 'attr' in node.attrib: self.field = node.attrib['attr']
AttrStr(st, node, attr, field) ==
    IF HasAttr(node, attr) THEN SetField(st, field, node.attrib[attr]) ELSE st

\* if 'attr' in node.attrib: self.field = int(node.attrib['attr'])
AttrInt(st, node, attr, field) ==
    IF HasAttr(node, attr) THEN SetInt(st, field, node.attrib[attr]) ELSE st

\* if 'date' in node.attrib:
\*     self.field = int(dateutil.parser.parse(date).strftime("%s"))
\* boxed: the field may hold None (Review.date), the integer n is kept as <<n>>
AttrDate(st, node, field, boxed) ==
    IF st.exc # NoExc \/ ~HasAttr(node, "date") THEN st
    ELSE IF ~IsDate(node.attrib["date"]) THEN [st EXCEPT !.exc = "ValueError"]
    ELSE IF boxed
    THEN [st EXCEPT !.obj[field] = <<DateEpoch(node.attrib["date"])>>]
    ELSE [st EXCEPT !.obj[field] = DateEpoch(node.attrib["date"])]

\* Checksum._parse_tree
ChecksumParseTree(st, node) ==
    SetField(AttrStr(AttrStr(AttrStr(st, node, "filename", "filename"),
                             node, "type", "kind"),
                     node, "target", "target"),
             "value", node.text)

\* the date read before the timestamp, so that the timestamp is kept
ReleaseParseTimestamp_date_first(st, node) ==
    AttrInt(AttrDate(st, node, "timestamp", FALSE),
            node, "timestamp", "timestamp")

\* Release._parse_tree, lines 172-176: the timestamp, then the date
ReleaseParseTimestamp(st, node) ==
    AttrDate(AttrInt(st, node, "timestamp", "timestamp"), node, "timestamp",
             FALSE)

\* no fix-up: the version stays as written
FixHexVersion_verbatim(st) == st

\* the hex fix-up, lines 182-183: str(int(version[2:], 16))
FixHexVersion(st) ==
    LET v    == st.obj.version
        rest == SubSeq(v, 3, Len(v))
    IN  IF st.exc # NoExc \/ ~StartsWith(v, <<"0", "x">>) THEN st
        ELSE IF ~IsInt(rest, 16) THEN [st EXCEPT !.exc = "ValueError"]
        ELSE [st EXCEPT !.obj.version = IntStr(IntOf(rest, 16))]

\* Release._parse_tree, lines 179-183: the version attribute
ReleaseParseVersion(st, node) ==
    IF HasAttr(node, "version")
    THEN FixHexVersion(SetField(st, "version", node.attrib["version"]))
    ELSE st

\* a parsed child object added to its owner: st is the owner's state, sub
\* the child's after its _parse_tree, which may have raised
AddParsed(st, sub, add) ==
    IF sub.exc # NoExc THEN [st EXCEPT !.oid = sub.oid, !.exc = sub.exc]
    ELSE PState(CallAdd(add, st.obj, sub.obj), sub.oid, NoExc)

\* a new object of a class, under construction
Fresh(st, class) == PState(New(class, st.oid), st.oid + 1, NoExc)

\* one child of <release>, lines 185-186: <description>
ReleaseParseDescription(st, c3) ==
    IF c3.tag = "description"
    THEN SetField(st, "description", _parse_desc(c3)) ELSE st

\* <size>, lines 187-193: skipped without a type
ReleaseParseSize(st, c3, type, field) ==
    IF HasAttr(c3, "type") /\ c3.attrib["type"] = Str(type)
    THEN SetInt(st, field, c3.text) ELSE st

\* one child of <release>, lines 187-197: <size> or <checksum>
ReleaseParseSizeChecksum(st, c3) ==
    IF st.exc # NoExc THEN st
    ELSE IF c3.tag = "size"
    THEN ReleaseParseSize(ReleaseParseSize(st, c3, "installed", "size_installed"),
                          c3, "download", "size_download")
    ELSE IF c3.tag = "checksum"
    THEN AddParsed(st, ChecksumParseTree(Fresh(st, "Checksum"), c3), "add_checksum")
    ELSE st

\* one child of <release>, lines 185-197
ReleaseParseChild(st, c3) ==
    ReleaseParseSizeChecksum(ReleaseParseDescription(st, c3), c3)

RECURSIVE ReleaseParseChildren(_, _)
ReleaseParseChildren(st, children) ==
    IF children = << >> \/ st.exc # NoExc THEN st
    ELSE ReleaseParseChildren(ReleaseParseChild(st, Head(children)),
                              Tail(children))

\* Release._parse_tree
ReleaseParseTree(st, node) ==
    ReleaseParseChildren(
        ReleaseParseVersion(
            AttrStr(ReleaseParseTimestamp(st, node), node, "urgency", "urgency"),
            node),
        node.children)

\* Review._parse_tree, lines 80-90: the attributes.  Review.date holds
\* None or the integer in a one-element tuple.
ReviewParseAttrs(st, node) ==
    AttrInt(AttrInt(AttrInt(AttrStr(AttrDate(st, node, "date", TRUE),
                                    node, "id", "id"),
                            node, "karma", "karma"),
                    node, "score", "score"),
            node, "rating", "rating")

\* <metadata> of a review, lines 104-108
RECURSIVE ReviewParseMetadata(_, _)
ReviewParseMetadata(metadata, values) ==
    IF values = << >> THEN metadata
    ELSE ReviewParseMetadata(
             IF Head(values).tag = "value" /\ HasAttr(Head(values), "key")
             THEN DictSet(metadata, Head(values).attrib["key"], Head(values).text)
             ELSE metadata,
             Tail(values))

\* one child of <review>, lines 92-108
ReviewParseChild(self, c3) ==
    IF c3.tag = "lang" THEN [self EXCEPT !.locale = c3.text]
    ELSE IF c3.tag = "version" THEN [self EXCEPT !.version = c3.text]
    ELSE IF c3.tag = "reviewer_id" THEN [self EXCEPT !.reviewer_id = c3.text]
    ELSE IF c3.tag = "reviewer_name" THEN [self EXCEPT !.reviewer_name = c3.text]
    ELSE IF c3.tag = "summary" THEN [self EXCEPT !.summary = c3.text]
    ELSE IF c3.tag = "description"
    THEN [self EXCEPT !.description = _parse_desc(c3)]
    ELSE IF c3.tag = "metadata"
    THEN [self EXCEPT !.metadata = ReviewParseMetadata(@, c3.children)]
    ELSE self

RECURSIVE ReviewParseChildren(_, _)
ReviewParseChildren(st, children) ==
    IF children = << >> \/ st.exc # NoExc THEN st
    ELSE ReviewParseChildren(
             [st EXCEPT !.obj = ReviewParseChild(@, Head(children))],
             Tail(children))

\* Review._parse_tree
ReviewParseTree(st, node) ==
    ReviewParseChildren(ReviewParseAttrs(st, node), node.children)

\* Image._parse_tree
ImageParseTree(st, node) ==
    SetField(AttrInt(AttrInt(AttrStr(st, node, "type", "kind"),
                             node, "width", "width"),
                     node, "height", "height"),
             "url", node.text)

\* one child of <screenshot>, lines 280-285
ScreenshotParseChild(st, c3) ==
    IF c3.tag = "caption" THEN SetField(st, "caption", _parse_desc(c3))
    ELSE IF c3.tag = "image"
    THEN AddParsed(st, ImageParseTree(Fresh(st, "Image"), c3), "add_image")
    ELSE st

RECURSIVE ScreenshotParseChildren(_, _)
ScreenshotParseChildren(st, children) ==
    IF children = << >> \/ st.exc # NoExc THEN st
    ELSE ScreenshotParseChildren(ScreenshotParseChild(st, Head(children)),
                                 Tail(children))

\* Screenshot._parse_tree
ScreenshotParseTree(st, node) ==
    ScreenshotParseChildren(AttrStr(st, node, "type", "kind"), node.children)

\* Provide._parse_tree, lines 307-308: the kind of a flashed firmware
ProvideParseKind(st, node) ==
    IF HasAttr(node, "type") /\ node.attrib["type"] = Str("flashed")
    THEN SetField(st, "kind", Str("firmware-flashed")) ELSE st

\* Provide._parse_tree: node.text.lower() raises AttributeError on None
ProvideParseTree(st, node) ==
    IF node.tag # "firmware" THEN st
    ELSE IF node.text = None
    THEN [ProvideParseKind(st, node) EXCEPT !.exc = "AttributeError"]
    ELSE SetField(ProvideParseKind(st, node), "value", Lower(node.text))

\* Require._parse_tree
RequireParseTree(st, node) ==
    SetField(AttrStr(AttrStr(SetField(st, "kind", Str(node.tag)),
                             node, "compare", "compare"),
                     node, "version", "version"),
             "value", node.text)

\* one child c2 of a container c1 of Component.parse, lines 569-634:
\* st.obj is the Component
ParseContained(st, container, c2) ==
    IF container = "releases"
    THEN IF c2.tag # "release" THEN st
         ELSE AddParsed(st, ReleaseParseTree(Fresh(st, "Release"), c2), "add_release")
    ELSE IF container = "reviews"
    THEN IF c2.tag # "review" THEN st
         ELSE AddParsed(st, ReviewParseTree(Fresh(st, "Review"), c2), "add_review")
    ELSE IF container = "screenshots"
    THEN IF c2.tag # "screenshot" THEN st
         ELSE AddParsed(st, ScreenshotParseTree(Fresh(st, "Screenshot"), c2),
                        "add_screenshot")
    ELSE IF container = "provides"
    THEN AddParsed(st, ProvideParseTree(Fresh(st, "Provide"), c2), "add_provide")
    ELSE IF container = "requires"
    THEN AddParsed(st, RequireParseTree(Fresh(st, "Require"), c2), "add_require")
    ELSE IF container = "kudos"
    THEN IF c2.tag # "kudo" THEN st
         ELSE [st EXCEPT !.obj.kudos = Append(@, c2.text)]
    ELSE IF container = "keywords"
    THEN IF c2.tag # "keyword" THEN st
         ELSE [st EXCEPT !.obj.keywords = Append(@, c2.text)]
    ELSE IF container = "categories"
    THEN IF c2.tag # "category" THEN st
         ELSE [st EXCEPT !.obj.categories = Append(@, c2.text)]
    ELSE \* custom
         IF c2.tag # "value" \/ ~HasAttr(c2, "key") THEN st
         ELSE [st EXCEPT !.obj.custom = DictSet(@, c2.attrib["key"], c2.text)]

RECURSIVE ParseContainer(_, _, _)
ParseContainer(st, container, children) ==
    IF children = << >> \/ st.exc # NoExc THEN st
    ELSE ParseContainer(ParseContained(st, container, Head(children)),
                        container, Tail(children))

Containers ==
    {"releases", "reviews", "screenshots", "provides", "requires", "kudos",
     "keywords", "categories", "custom"}

\* attrib.pop(name, 'unknown')
AttrPop(node, name) ==
    IF HasAttr(node, name) THEN node.attrib[name] ELSE Str("unknown")

\* a guard that lets every occurrence of a scalar through
Unset_always(value) == TRUE

\* "not self.name", lines 645-657: the field holds nothing truthy yet
Unset(value) == ~Truthy(value)

\* one child c1 of the root, Component.parse lines 554-684
ParseChild(st, c1) ==
    LET self == st.obj
        Set(field, value) == [st EXCEPT !.obj[field] = value]
    IN  IF c1.tag = "id" THEN Set("id", c1.text)
        ELSE IF c1.tag \in {"updatecontact", "update_contact"}
        THEN Set("update_contact", c1.text)
        ELSE IF c1.tag = "metadata_license"
        THEN Set("metadata_license", c1.text)
        ELSE IF c1.tag \in Containers
        THEN ParseContainer(st, c1.tag, c1.children)
        ELSE IF c1.tag \in {"project_license", "licence"}
        THEN Set("project_license", c1.text)
        ELSE IF c1.tag = "developer_name"
        THEN Set("developer_name", _join_lines(c1.text))
        ELSE IF c1.tag = "name" /\ Unset(self.name)
        THEN Set("name", _join_lines(c1.text))
        ELSE IF c1.tag = "pkgname" /\ Unset(self.pkgname)
        THEN Set("pkgname", _join_lines(c1.text))
        ELSE IF c1.tag = "summary" /\ Unset(self.summary)
        THEN Set("summary", _join_lines(c1.text))
        ELSE IF c1.tag = "description" /\ Unset(self.description)
        THEN Set("description", _parse_desc(c1))
        ELSE IF c1.tag = "url"
        THEN Set("urls",
                 DictSet(self.urls,
                         IF HasAttr(c1, "type") THEN c1.attrib["type"]
                         ELSE Str("homepage"),
                         c1.text))
        ELSE IF c1.tag = "icon"
        THEN LET key == AttrPop(c1, "type")
                 rec == [c1.attrib EXCEPT !["type"] = None, !["value"] = c1.text]
             IN  Set("icons",
                     DictSet(self.icons, key,
                             DictGet(self.icons, key, << >>) \o <<rec>>))
        ELSE IF c1.tag = "bundle"
        THEN Set("bundle",
                 <<[key |-> "type", value |-> AttrPop(c1, "type")],
                   [key |-> "runtime", value |-> AttrPop(c1, "runtime")],
                   [key |-> "sdk", value |-> AttrPop(c1, "sdk")],
                   [key |-> "value", value |-> c1.text]>>)
        ELSE st

RECURSIVE ParseChildren(_, _)
ParseChildren(st, children) ==
    IF children = << >> \/ st.exc # NoExc THEN st
    ELSE ParseChildren(ParseChild(st, Head(children)), Tail(children))

\* Component.parse, lines 550-551: the type of the root
ParseKind(st, root) ==
    IF HasAttr(root, "type") THEN [st EXCEPT !.obj.kind = root.attrib["type"]]
    ELSE st

\* a parse that empties the Component before it reads the text
parse_resetting(st, xml_data) ==
    IF ~xml_data.wellformed
    THEN [st EXCEPT !.obj = Component, !.exc = "ParseError"]
    ELSE ParseChildren(ParseKind([st EXCEPT !.obj = Component], xml_data.root),
                       xml_data.root.children)

\* Component.parse(xml_data).  xml_data is [wellformed, root]: text that
\* ET.fromstring rejects (ParseError, line 544), or the tree of the text.
parse(st, xml_data) ==
    IF ~xml_data.wellformed THEN [st EXCEPT !.exc = "ParseError"]
    ELSE ParseChildren(ParseKind(st, xml_data.root), xml_data.root.children)

---------------------------------------------------------------------------
(* The validator *)

\* an allow-list that lets MIT through
valid_licenses_with_mit == <<Str("CC0-1.0"), Str("FSFAP"), Str("MIT")>>

valid_licenses ==
    <<Str("CC0-1.0"), Str("CC-BY-3.0"), Str("CC-BY-4.0"), Str("CC-BY-SA-3.0"),
      Str("CC-BY-SA-4.0"), Str("GFDL-1.1"), Str("GFDL-1.2"), Str("GFDL-1.3"),
      Str("FSFAP")>>

Ok == "ok"

\* a release loop that looks at the timestamp before the version
RECURSIVE ValidateReleases_timestamp_first(_)
ValidateReleases_timestamp_first(releases) ==
    IF releases = << >> THEN Ok
    ELSE IF Head(releases).timestamp = 0
    THEN "No timestamp in <release> tag"
    ELSE IF ~Truthy(Head(releases).version)
    THEN "No version in <release> tag"
    ELSE ValidateReleases_timestamp_first(Tail(releases))

\* the release loop of validate, lines 529-533: the first failing check
RECURSIVE ValidateReleases(_)
ValidateReleases(releases) ==
    IF releases = << >> THEN Ok
    ELSE IF ~Truthy(Head(releases).version)
    THEN "No version in <release> tag"
    ELSE IF Head(releases).timestamp = 0
    THEN "No timestamp in <release> tag"
    ELSE ValidateReleases(Tail(releases))

\* Component.validate: Ok, or the message of the ValidationError raised
validate(self) ==
    IF ~Truthy(self.id) THEN "No <id> tag"
    ELSE IF ~Truthy(self.name) THEN "No <name> tag"
    ELSE IF ~Truthy(self.summary) THEN "No <summary> tag"
    ELSE IF ~Truthy(self.description) THEN "No <description> tag"
    ELSE IF self.kind = Str("firmware") /\ Len(self.provides) = 0
    THEN "No <provides> tag"
    ELSE IF self.kind = Str("firmware") /\ Len(self.releases) = 0
    THEN "No <release> tag"
    ELSE IF self.kind = Str("desktop") /\ Len(self.screenshots) = 0
    THEN "No <screenshot> tag"
    ELSE IF ~Truthy(self.metadata_license) THEN "No <metadata_license> tag"
    ELSE IF ~\E i \in 1..Len(valid_licenses) :
                valid_licenses[i] = self.metadata_license
    THEN "Invalid <metadata_license> tag"
    ELSE IF ~Truthy(self.project_license) THEN "No <project_license> tag"
    ELSE IF ~Truthy(self.developer_name) THEN "No <developer_name> tag"
    ELSE ValidateReleases(self.releases)

---------------------------------------------------------------------------
(* The serializer.  The text is a sequence of tokens: the markup without   *)
(* its indentation and quotes, and the values between.                     *)

\* an element or attribute written only if the value is truthy
IfSet(value, before, after) ==
    IF Truthy(value) THEN before \o value \o after ELSE << >>

IfPositive(n, before, after) ==
    IF n > 0 THEN before \o IntStr(n) \o after ELSE << >>

IfNonZero(n, before, after) ==
    IF n # 0 THEN before \o IntStr(n) \o after ELSE << >>

\* texts written one after the other
Concat(texts) == Join(texts, << >>)

\* Checksum.to_xml
ChecksumToXml(self) ==
    <<"<checksum", "filename=">> \o Fmt(self.filename)
        \o <<"target=">> \o Fmt(self.target) \o <<"type=", "sha1", ">">>
        \o Fmt(self.value) \o <<"</checksum>">>

\* datetime.fromtimestamp(date).isoformat(), in the zone of DateEpoch
IsoFormat(date) ==
    IF date = Epoch20160225 THEN Str("2016-02-25T00:00:00")
    ELSE IF date = Epoch20160915 THEN Str("2016-09-15T00:00:00")
    ELSE <<"isoformat">> \o IntStr(date)

\* the key="..." values of a dict
DictToXml(dict) ==
    Concat([i \in 1..Len(dict) |->
                <<"<value", "key=">> \o Fmt(dict[i].key) \o <<">">>
                    \o Fmt(dict[i].value) \o <<"</value>">>])

\* Review.to_xml
ReviewToXml(self) ==
    <<"<review">>
        \o (IF self.date # None /\ self.date # <<0>>
            THEN <<"date=">> \o IsoFormat(self.date[1]) ELSE << >>)
        \o IfNonZero(self.rating, <<"rating=">>, << >>)
        \o IfNonZero(self.score, <<"score=">>, << >>)
        \o IfNonZero(self.karma, <<"karma=">>, << >>)
        \o IfSet(self.id, <<"id=">>, << >>)
        \o <<">">>
        \o IfSet(self.summary, <<"<summary>">>, <<"</summary>">>)
        \o IfSet(self.description, <<"<description>">>, <<"</description>">>)
        \o IfSet(self.version, <<"<version>">>, <<"</version>">>)
        \o IfSet(self.reviewer_id, <<"<reviewer_id>">>, <<"</reviewer_id>">>)
        \o IfSet(self.reviewer_name, <<"<reviewer_name>">>, <<"</reviewer_name>">>)
        \o IfSet(self.locale, <<"<lang>">>, <<"</lang>">>)
        \o (IF Len(self.metadata) > 0
            THEN <<"<metadata>">> \o DictToXml(self.metadata) \o <<"</metadata>">>
            ELSE << >>)
        \o <<"</review>">>

\* Release.to_xml
ReleaseToXml(self) ==
    <<"<release">>
        \o IfSet(self.version, <<"version=">>, << >>)
        \o IfNonZero(self.timestamp, <<"timestamp=">>, << >>)
        \o IfSet(self.urgency, <<"urgency=">>, << >>)
        \o <<">">>
        \o IfPositive(self.size_installed, <<"<size", "type=", "installed", ">">>,
                      <<"</size>">>)
        \o IfPositive(self.size_download, <<"<size", "type=", "download", ">">>,
                      <<"</size>">>)
        \o IfSet(self.location, <<"<location>">>, <<"</location>">>)
        \o Concat([i \in 1..Len(self.checksums) |->
                        ChecksumToXml(self.checksums[i])])
        \o IfSet(self.description, <<"<description>">>, <<"</description>">>)
        \o <<"</release>">>

\* Image.to_xml
ImageToXml(self) ==
    <<"<image">>
        \o IfSet(self.kind, <<"type=">>, << >>)
        \o IfPositive(self.width, <<"width=">>, << >>)
        \o IfPositive(self.height, <<"height=">>, << >>)
        \o <<">">>
        \o IfSet(self.url, << >>, << >>)
        \o <<"</image>">>

\* Screenshot.to_xml
ScreenshotToXml(self) ==
    <<"<screenshot">>
        \o IfSet(self.kind, <<"type=">>, << >>)
        \o <<">">>
        \o Concat([i \in 1..Len(self.images) |-> ImageToXml(self.images[i])])
        \o IfSet(self.caption, <<"<caption>">>, <<"</caption>">>)
        \o <<"</screenshot>">>

\* one entry of <requires>, lines 421-431
RequireToXml(p) ==
    IF ~Truthy(p.kind) THEN << >>
    ELSE <<"<">> \o p.kind
            \o IfSet(p.compare, <<"compare=">>, << >>)
            \o IfSet(p.version, <<"version=">>, << >>)
            \o <<">">>
            \o IfSet(p.value, << >>, << >>)
            \o <<"</">> \o p.kind \o <<">">>

\* a list in its container element, written only if the list is non-empty
Contained(list, tag, texts) ==
    IF Len(list) > 0
    THEN <<"<" \o tag \o ">">> \o Concat(texts) \o <<"</" \o tag \o ">">>
    ELSE << >>

\* a list of str in its container, each in an element of the given tag
ContainedStrs(list, tag, each) ==
    Contained(list, tag,
              [i \in 1..Len(list) |->
                    <<"<" \o each \o ">">> \o Fmt(list[i])
                        \o <<"</" \o each \o ">">>])

\* Component.to_xml, lines 356-370: the scalar elements
ScalarsToXml(self) ==
    <<"<component", "type=", "firmware", ">">>
        \o IfSet(self.id, <<"<id>">>, <<"</id>">>)
        \o IfSet(self.pkgname, <<"<pkgname>">>, <<"</pkgname>">>)
        \o IfSet(self.name, <<"<name>">>, <<"</name>">>)
        \o IfSet(self.summary, <<"<summary>">>, <<"</summary>">>)
        \o IfSet(self.developer_name, <<"<developer_name>">>,
                 <<"</developer_name>">>)
        \o IfSet(self.project_license, <<"<project_license>">>,
                 <<"</project_license>">>)
        \o IfSet(self.description, <<"<description>">>, <<"</description>">>)

\* Component.to_xml, lines 379-380 and 383-438: urls, then the collections
CollectionsToXml(self) ==
    Concat([i \in 1..Len(self.urls) |->
                <<"<url", "type=">> \o Fmt(self.urls[i].key) \o <<">">>
                    \o Fmt(self.urls[i].value) \o <<"</url>">>])
        \o Contained(self.releases, "releases",
                     [i \in 1..Len(self.releases) |->
                            ReleaseToXml(self.releases[i])])
        \o Contained(self.reviews, "reviews",
                     [i \in 1..Len(self.reviews) |->
                            ReviewToXml(self.reviews[i])])
        \o Contained(self.screenshots, "screenshots",
                     [i \in 1..Len(self.screenshots) |->
                            ScreenshotToXml(self.screenshots[i])])
        \o ContainedStrs(self.kudos, "kudos", "kudo")
        \o ContainedStrs(self.keywords, "keywords", "keyword")
        \o ContainedStrs(self.categories, "categories", "category")
        \o Contained(self.provides, "provides",
                     [i \in 1..Len(self.provides) |->
                            <<"<firmware", "type=", "flashed", ">">>
                                \o Fmt(self.provides[i].value)
                                \o <<"</firmware>">>])
        \o Contained(self.requires, "requires",
                     [i \in 1..Len(self.requires) |->
                            RequireToXml(self.requires[i])])
        \o (IF Len(self.custom) > 0
            THEN <<"<custom>">> \o DictToXml(self.custom) \o <<"</custom>">>
            ELSE << >>)
        \o <<"</component>">>

\* Component.to_xml: [xml, exc].  The format string of <bundle> (line 372)
\* has no conversion type, so a non-empty bundle raises ValueError; an
\* entry of icons is a list, so indexing it by 'value' (line 382) raises
\* TypeError; nothing is returned then.
to_xml(self) ==
    IF self.bundle # << >>
    THEN [xml |-> << >>, exc |-> "ValueError"]
    ELSE IF self.icons # << >>
    THEN [xml |-> << >>, exc |-> "TypeError"]
    ELSE [xml |-> ScalarsToXml(self) \o CollectionsToXml(self), exc |-> NoExc]

---------------------------------------------------------------------------
(* ET.fromstring on the text to_xml writes: the tokens read back as a tree. *)
(* A token is markup (the start of a tag, a whole tag, an attribute name,   *)
(* the end of a tag) or a piece of a value.                                 *)

TagNames ==
    {"component", "id", "pkgname", "name", "summary", "developer_name",
     "project_license", "description", "url", "releases", "release", "size",
     "location", "checksum", "reviews", "review", "version", "reviewer_id",
     "reviewer_name", "lang", "metadata", "value", "screenshots",
     "screenshot", "image", "caption", "kudos", "kudo", "keywords",
     "keyword", "categories", "category", "provides", "firmware", "requires",
     "custom", "p", "ul", "ol", "li"}

\* <tag> and <tag, the whole and the started opening tag
IsWholeTag(t) == \E n \in TagNames : t = "<" \o n \o ">"
IsOpen(t) == t = "<" \/ IsWholeTag(t) \/ \E n \in TagNames : t = "<" \o n
IsClose(t) == t = "</" \/ \E n \in TagNames : t = "</" \o n \o ">"
IsAttr(t) == \E a \in AttrNames : t = a \o "="

TagOf(t) == CHOOSE n \in TagNames : t \in {"<" \o n, "<" \o n \o ">"}
AttrOf(t) == CHOOSE a \in AttrNames : t = a \o "="

\* the first index from i on whose token ends an attribute value
RECURSIVE ValueEnd(_, _)
ValueEnd(toks, i) ==
    IF i > Len(toks) \/ toks[i] = ">" \/ IsAttr(toks[i]) THEN i
    ELSE ValueEnd(toks, i + 1)

\* the first index from i on whose token ends an element's text
RECURSIVE TextEnd(_, _)
TextEnd(toks, i) ==
    IF i > Len(toks) \/ IsOpen(toks[i]) \/ IsClose(toks[i]) THEN i
    ELSE TextEnd(toks, i + 1)

\* the attributes from i up to the > of the tag: [attrib, next]
RECURSIVE ReadAttrs(_, _, _)
ReadAttrs(toks, i, attrib) ==
    IF i > Len(toks) \/ toks[i] = ">"
    THEN [attrib |-> attrib, next |-> i + 1]
    ELSE ReadAttrs(toks, ValueEnd(toks, i + 1),
                   [attrib EXCEPT ![AttrOf(toks[i])] =
                        SubSeq(toks, i + 1, ValueEnd(toks, i + 1) - 1)])

\* the text of an element: None if there is none
TextOf(toks, i) ==
    IF TextEnd(toks, i) = i THEN None
    ELSE SubSeq(toks, i, TextEnd(toks, i) - 1)

\* the index after the closing tag at i
AfterClose(toks, i) == IF i <= Len(toks) /\ toks[i] = "</" THEN i + 3 ELSE i + 1

RECURSIVE ReadElement(_, _)
RECURSIVE ReadChildren(_, _, _)

\* the element made of its tag, its attributes and its content from i on
ReadContent(toks, tag, head, inner) ==
    [node |-> Element(tag, head.attrib, TextOf(toks, head.next),
                      inner.children),
     next |-> AfterClose(toks, inner.next)]

ReadTagged(toks, tag, head) ==
    ReadContent(toks, tag, head,
                ReadChildren(toks, TextEnd(toks, head.next), << >>))

\* the element that starts at i: [node, next]
ReadElement(toks, i) ==
    IF toks[i] = "<"
    THEN ReadTagged(toks, toks[i + 1], ReadAttrs(toks, i + 2, NoAttrs))
    ELSE IF IsWholeTag(toks[i])
    THEN ReadTagged(toks, TagOf(toks[i]), [attrib |-> NoAttrs, next |-> i + 1])
    ELSE ReadTagged(toks, TagOf(toks[i]), ReadAttrs(toks, i + 1, NoAttrs))

ReadNext(toks, read, children) ==
    ReadChildren(toks, read.next, Append(children, read.node))

\* the elements from i up to the closing tag of their parent
ReadChildren(toks, i, children) ==
    IF i > Len(toks) \/ IsClose(toks[i])
    THEN [children |-> children, next |-> i]
    ELSE IF IsOpen(toks[i])
    THEN ReadNext(toks, ReadElement(toks, i), children)
    ELSE ReadChildren(toks, i + 1, children)

\* ET.fromstring(xml) for the xml of to_xml
fromstring(xml) == [wellformed |-> TRUE, root |-> ReadElement(xml, 1).node]

---------------------------------------------------------------------------
(* Inputs of the operations *)

\* a text, or an integer, as one attribute or element text
T_content   == Str("content")
T_container == Str("container")

\* a new Release, its fields assigned before it is added
NewReleases(oid) ==
    {[Release(oid) EXCEPT !.version = v, !.timestamp = 5] :
        v \in {None, Str("1.0")}}

NewReviews(oid) ==
    {[Review(oid) EXCEPT !.id = i] : i \in {None, Str("17")}}

NewProvides(oid) ==
    {[Provide(oid) EXCEPT !.value = v] : v \in {None, Str("abc")}}

NewRequires(oid) ==
    {[Require(oid) EXCEPT !.value = v, !.kind = k] :
        v \in {Str("bootloader")}, k \in {None, Str("firmware")}}

NewScreenshots(oid) == {Screenshot(oid)}

NewChecksums(oid) ==
    {[Checksum(oid) EXCEPT !.target = t, !.value = Str("deadbeef")] :
        t \in {T_content, T_container}}

NewImages(oid) ==
    {[Image(oid) EXCEPT !.kind = k] : k \in {None, Str("source")}}

\* an element with no attribute and no child
El(tag, text) == Element(tag, NoAttrs, text, << >>)

\* an element with attributes
ElA(tag, given, text) == Element(tag, Attrs(given), text, << >>)

\* a container element
ElC(tag, children) == Element(tag, NoAttrs, None, children)

\* the text of a well-formed document whose root has the given children
Doc(type, children) ==
    [wellformed |-> TRUE,
     root |-> Element("component", Attrs([type |-> type]), None, children)]

\* text that is not XML: app.parse('junk'), test.py line 55
DocJunk == [wellformed |-> FALSE, root |-> El("junk", None)]

\* a minimal firmware component
DocMinimal ==
    Doc(Str("firmware"),
        <<El("id", Str("com.example.fw")),
          El("name", Str("Example FW")),
          El("summary", <<"\n", " ", "s", "\n", " ">>),
          Element("description", NoAttrs, None, <<El("p", <<" ", "d", "\n">>)>>),
          El("metadata_license", Str("CC0-1.0")),
          El("project_license", Str("GPL-2.0+")),
          El("developer_name", Str("Dev")),
          ElC("provides", <<ElA("firmware", [type |-> Str("flashed")],
                                <<"A", "B", "c">>)>>),
          ElC("releases", <<ElA("release",
                                [version |-> Str("1.0"),
                                 timestamp |-> <<"1", "0", "0">>], None)>>)>>)

\* three releases of one version, the second written in hex
DocDuplicates ==
    Doc(Str("firmware"),
        <<ElC("releases",
              <<ElA("release", [version |-> <<"1", "0">>,
                                timestamp |-> <<"5">>], None),
                ElA("release", [version |-> <<"0", "x", "0", "A">>,
                                date |-> Str("2016-02-25")], None),
                ElA("release", [version |-> <<"1", "0">>,
                                urgency |-> Str("high")], None)>>)>>)

\* the release of test.py lines 94-105, with a second checksum of its target
DocRelease ==
    Doc(None,
        <<ElC("releases",
              <<Element("release",
                        Attrs([version |-> Str("1.2.4"),
                               timestamp |-> <<"1", "4", "3", "8", "4", "5",
                                               "4", "3", "1", "4">>,
                               date |-> Str("2016-02-25"),
                               urgency |-> Str("high")]),
                        None,
                        <<ElA("size", [type |-> Str("installed")], <<"1", "2">>),
                          El("size", <<"7">>),
                          ElA("checksum", [target |-> T_content,
                                           filename |-> Str("firmware.bin")],
                              Str("deadbeef")),
                          ElA("checksum", [target |-> T_content],
                              Str("beefdead"))>>)>>)>>)

\* a screenshot with two images of one kind
DocScreenshot ==
    Doc(Str("desktop"),
        <<ElC("screenshots",
              <<Element("screenshot", Attrs([type |-> Str("default")]), None,
                        <<ElA("image", [type |-> Str("source")], Str("http://a.png")),
                          ElA("image", [type |-> Str("source"),
                                        width |-> <<"6", "2", "4">>],
                              Str("http://b.png")),
                          El("caption", Str("No markup"))>>)>>)>>)

\* the fields that hold no object, and a tag the parser does not know
DocMisc ==
    Doc(None,
        <<El("url", Str("http://www.hughski.com/")),
          ElA("icon", [type |-> Str("stock")], Str("fw")),
          ElA("bundle", [type |-> Str("flatpak")], Str("app/fw")),
          ElC("kudos", <<El("kudo", Str("HiDpiIcon"))>>),
          ElC("keywords", <<El("keyword", Str("one")), El("other", Str("x"))>>),
          ElC("categories", <<El("category", Str("System"))>>),
          ElC("custom", <<ElA("value", [key |-> Str("foo")], Str("bar")),
                          El("value", Str("nokey"))>>),
          El("updatecontact", Str("richard_at_hughsie.com")),
          El("unknown", Str("x"))>>)

\* a release whose version is 0x followed by no hex digit, between two fields
DocBadHex ==
    Doc(None,
        <<El("id", Str("com.example.fw")),
          ElC("releases", <<ElA("release", [version |-> <<"0", "x", "Z">>], None)>>),
          El("developer_name", Str("Dev"))>>)

\* <provides> with a child that is no <firmware>, and a <firmware> of no text
DocProvides ==
    Doc(Str("firmware"),
        <<ElC("requires", <<ElA("id", [compare |-> Str("ge"),
                                       version |-> Str("0.8.2")],
                                Str("org.freedesktop.fwupd"))>>),
          ElC("provides", <<El("id", Str("x")), El("firmware", None)>>)>>)

\* two reviews of one id
DocReviews ==
    Doc(None,
        <<ElC("reviews",
              <<Element("review",
                        Attrs([id |-> Str("17"), date |-> Str("2016-09-15"),
                               rating |-> <<"8", "0">>, karma |-> <<"-", "1">>]),
                        None,
                        <<El("summary", Str("Hello world")),
                          ElC("metadata", <<ElA("value", [key |-> Str("foo")],
                                                Str("bar"))>>)>>),
                ElA("review", [id |-> Str("17")], None)>>)>>)

Docs ==
    {DocJunk, DocMinimal, DocDuplicates, DocRelease, DocScreenshot, DocMisc,
     DocBadHex, DocProvides, DocReviews}

\* the elements of a sequence, as a set
Range(list) == {list[i] : i \in 1..Len(list)}

\* the objects already held, which a caller may add again
HeldChecksums == UNION {Range(app.releases[i].checksums) :
                            i \in 1..Len(app.releases)}

HeldImages == UNION {Range(app.screenshots[i].images) :
                        i \in 1..Len(app.screenshots)}

\* the identity counter after an operation given the object obj
OidAfter(obj) == IF obj.oid = nextOid THEN nextOid + 1 ELSE nextOid

\* the new objects a caller may construct and pass: none once the
\* behaviour's budget of objects is spent
Constructed(limit, new) == IF nextOid <= limit THEN new ELSE {}

\* the record of an operation that is no add
Last(op, arg, exc, out) ==
    [op |-> op, arg |-> arg, exc |-> exc, out |-> out, at |-> 0,
     before |-> << >>, again |-> FALSE]

\* the record of an add: the candidate, the receiver (at: its index, 0 for
\* the Component), the receiver's collection before the call, and whether
\* the call repeats the call before it: the same operation on the same
\* receiver with a candidate of the same natural key
LastAdd(op, at, candidate, before) ==
    [op |-> op, arg |-> candidate, exc |-> NoExc, out |-> << >>, at |-> at,
     before |-> before,
     again |-> /\ last.op = op
               /\ last.at = at
               /\ KeyFor(op, last.arg) = KeyFor(op, candidate)]

\* app.add_release(r), r a new Release
AddRelease(limit) ==
    \E r \in Constructed(limit, NewReleases(nextOid)) :
        /\ app' = add_release(app, r)
        /\ nextOid' = OidAfter(r)
        /\ last' = LastAdd("add_release", 0, r, app.releases)

\* app.add_review(r), r a new Review
AddReview(limit) ==
    \E r \in Constructed(limit, NewReviews(nextOid)) :
        /\ app' = add_review(app, r)
        /\ nextOid' = OidAfter(r)
        /\ last' = LastAdd("add_review", 0, r, app.reviews)

\* app.add_screenshot(ss), ss a new Screenshot or one already held
AddScreenshot(limit) ==
    \E ss \in Constructed(limit, NewScreenshots(nextOid))
                \cup Range(app.screenshots) :
        /\ app' = add_screenshot(app, ss)
        /\ nextOid' = OidAfter(ss)
        /\ last' = LastAdd("add_screenshot", 0, ss, app.screenshots)

\* app.add_provide(q), q a new Provide
AddProvide(limit) ==
    \E q \in Constructed(limit, NewProvides(nextOid)) :
        /\ app' = add_provide(app, q)
        /\ nextOid' = OidAfter(q)
        /\ last' = LastAdd("add_provide", 0, q, app.provides)

\* app.add_require(q), q a new Require
AddRequire(limit) ==
    \E q \in Constructed(limit, NewRequires(nextOid)) :
        /\ app' = add_require(app, q)
        /\ nextOid' = OidAfter(q)
        /\ last' = LastAdd("add_require", 0, q, app.requires)

\* rel = app.releases[i]; rel.add_checksum(csum), test.py lines 210-223;
\* csum a new Checksum or one already held
AddChecksum(limit) ==
    \E i \in 1..Len(app.releases) :
        \E csum \in Constructed(limit, NewChecksums(nextOid))
                        \cup HeldChecksums :
            /\ app' = [app EXCEPT !.releases[i] = add_checksum(@, csum)]
            /\ nextOid' = OidAfter(csum)
            /\ last' = LastAdd("add_checksum", i, csum,
                                app.releases[i].checksums)

\* ss = app.screenshots[i]; ss.add_image(im)
AddImage(limit) ==
    \E i \in 1..Len(app.screenshots) :
        \E im \in Constructed(limit, NewImages(nextOid)) \cup HeldImages :
            /\ app' = [app EXCEPT !.screenshots[i] = add_image(@, im)]
            /\ nextOid' = OidAfter(im)
            /\ last' = LastAdd("add_image", i, im,
                                app.screenshots[i].images)

\* app.parse(xml_data)
Parse(limit) ==
    /\ nextOid <= limit
    /\ \E xml_data \in Docs :
        \E st \in {parse(PState(app, nextOid, NoExc), xml_data)} :
            /\ Len(st.obj.kudos) <= MaxAppends
            /\ Len(st.obj.keywords) <= MaxAppends
            /\ Len(st.obj.categories) <= MaxAppends
            /\ \A i \in 1..Len(st.obj.icons) :
                    Len(st.obj.icons[i].value) <= MaxAppends
            /\ app' = st.obj
            /\ nextOid' = st.oid
            /\ last' = Last("parse", xml_data, st.exc, << >>)

\* app.validate()
Validate ==
    /\ last' = Last("validate", << >>,
                    IF validate(app) = Ok THEN NoExc ELSE "ValidationError",
                    validate(app))
    /\ UNCHANGED <<app, nextOid>>

\* a to_xml that drops the releases it has written
ToXml_draining ==
    /\ last' = Last("to_xml", << >>, to_xml(app).exc, to_xml(app).xml)
    /\ app' = [app EXCEPT !.releases = << >>]
    /\ UNCHANGED nextOid

\* app.to_xml()
ToXml ==
    /\ last' = Last("to_xml", << >>, to_xml(app).exc, to_xml(app).xml)
    /\ UNCHANGED <<app, nextOid>>

Init ==
    /\ app = Component
    /\ nextOid = 1
    /\ last = Last("init", << >>, NoExc, << >>)

\* the whole program: a Component parsed, added to, validated, serialized
Next ==
    \/ Parse(MaxObjects)
    \/ AddRelease(MaxObjects)
    \/ AddReview(MaxObjects)
    \/ AddScreenshot(MaxObjects)
    \/ AddProvide(MaxObjects)
    \/ AddRequire(MaxObjects)
    \/ AddChecksum(MaxObjects)
    \/ AddImage(MaxObjects)
    \/ Validate
    \/ ToXml

Spec == Init /\ [][Next]_vars

\* a Component built by its caller through the add operations alone
NextAdd ==
    \/ AddRelease(MaxAdded)
    \/ AddReview(MaxAdded)
    \/ AddScreenshot(MaxAdded)
    \/ AddProvide(MaxAdded)
    \/ AddRequire(MaxAdded)
    \/ AddChecksum(MaxAdded)
    \/ AddImage(MaxAdded)

SpecAdd == Init /\ [][NextAdd]_vars

\* Components as a caller may have filled them, for validate: every text
\* field unset or empty, or set; no kind, a firmware with and without a
\* provide, a desktop with and without a screenshot; the licence missing,
\* off the list and on it; up to MaxReleases releases, each without version
\* and timestamp, without timestamp, or with both
ReleaseFields ==
    {[version |-> None, timestamp |-> 0],
     [version |-> Str("1.0"), timestamp |-> 0],
     [version |-> Str("1.0"), timestamp |-> 5]}

ReleaseLists ==
    UNION {[1..n -> ReleaseFields] : n \in 0..MaxReleases}

FilledReleases(fields) ==
    [i \in 1..Len(fields) |->
        [Release(i) EXCEPT !.version = fields[i].version,
                           !.timestamp = fields[i].timestamp]]

Kinds ==
    {[kind |-> None, provides |-> << >>, screenshots |-> << >>],
     [kind |-> Str("firmware"), provides |-> << >>, screenshots |-> << >>],
     [kind |-> Str("firmware"), provides |-> <<Provide(MaxReleases + 1)>>,
      screenshots |-> << >>],
     [kind |-> Str("desktop"), provides |-> << >>, screenshots |-> << >>],
     [kind |-> Str("desktop"), provides |-> << >>,
      screenshots |-> <<Screenshot(MaxReleases + 1)>>]}

Filled ==
    {[Component EXCEPT
        !.id = id, !.name = name, !.summary = summary,
        !.description = description, !.kind = k.kind,
        !.metadata_license = metadata_license,
        !.project_license = project_license,
        !.developer_name = developer_name,
        !.provides = k.provides,
        !.screenshots = k.screenshots,
        !.releases = FilledReleases(fields)] :
        id \in {None, << >>, Str("com.example.fw")},
        name \in {<< >>, Str("FW")},
        summary \in {None, Str("s")},
        description \in {<< >>, Str("<p>d</p>")},
        k \in Kinds,
        metadata_license \in {None, Str("MIT"), Str("CC0-1.0"), Str("FSFAP")},
        project_license \in {None, Str("GPL-2.0+")},
        developer_name \in {<< >>, Str("Dev")},
        fields \in ReleaseLists}

InitFilled ==
    /\ app \in Filled
    /\ nextOid = MaxReleases + 2
    /\ last = Last("init", << >>, NoExc, << >>)

NextValidate == Validate

\* validate applied to a filled Component
SpecValidate == InitFilled /\ [][NextValidate]_vars

\* documents of one <release>: the version any text over VersionChars up to
\* MaxVersionLen long or absent, the timestamp and the date absent, good or
\* no number and no date
VersionChars == {"0", "x", "A", "1", "g"}

Versions ==
    {None} \cup UNION {[1..n -> VersionChars] : n \in 0..MaxVersionLen}

Timestamps == {None, <<"5">>, <<"1", "7">>, <<"x">>}

Dates == {None, Str("2016-02-25"), Str("yesterday")}

DocOneRelease(version, timestamp, date) ==
    Doc(Str("firmware"),
        <<ElC("releases",
              <<Element("release",
                        [NoAttrs EXCEPT !["version"] = version,
                                        !["timestamp"] = timestamp,
                                        !["date"] = date],
                        None, << >>)>>)>>)

\* app.parse(xml_data) on a new Component, xml_data holding one <release>
ParseRelease ==
    /\ app = Component
    /\ \E version \in Versions, timestamp \in Timestamps, date \in Dates :
        \E st \in {parse(PState(app, nextOid, NoExc),
                         DocOneRelease(version, timestamp, date))} :
            /\ app' = st.obj
            /\ nextOid' = st.oid
            /\ last' = Last("parse",
                            DocOneRelease(version, timestamp, date),
                            st.exc, << >>)

NextRelease == ParseRelease

SpecReleaseParse == Init /\ [][NextRelease]_vars

\* documents of up to MaxChildren <name>, <pkgname>, <summary> and
\* <description> children, the text blank or one of two words
ScalarChildren ==
    {El(tag, text) : tag \in {"name", "pkgname", "summary"},
                     text \in {<<" ">>, <<" ", "A", "\n">>, Str("B")}}
    \cup {ElC("description", <<El("p", text)>>) :
                text \in {<<" ", "A", "\n">>, Str("B")}}

ScalarLists ==
    UNION {[1..n -> ScalarChildren] : n \in 0..MaxChildren}

\* app.parse(xml_data) on a new Component, xml_data holding scalar children
ParseScalars ==
    /\ app = Component
    /\ last.op = "init"
    /\ \E children \in ScalarLists :
        \E st \in {parse(PState(app, nextOid, NoExc), Doc(None, children))} :
            /\ app' = st.obj
            /\ nextOid' = st.oid
            /\ last' = Last("parse", Doc(None, children), st.exc, << >>)

NextScalars == ParseScalars

SpecScalars == Init /\ [][NextScalars]_vars

\* conformant documents: the fields validate wants, and any of the parts
\* that a document may have
OptionalParts ==
    {"updatecontact", "url", "keywords", "requires", "reviews", "checksum"}

Part(parts, name, children) == IF name \in parts THEN children ELSE << >>

ConformantDoc(kind, parts) ==
    Doc(kind,
        <<El("id", Str("com.example.fw")),
          El("name", Str("Example FW")),
          El("summary", Str("s")),
          ElC("description", <<El("p", Str("d"))>>),
          El("metadata_license", Str("CC0-1.0")),
          El("project_license", Str("GPL-2.0+")),
          El("developer_name", Str("Dev"))>>
        \o Part(parts, "updatecontact",
                <<El("updatecontact", Str("richard_at_hughsie.com"))>>)
        \o Part(parts, "url", <<El("url", Str("http://www.hughski.com/"))>>)
        \o Part(parts, "keywords",
                <<ElC("keywords", <<El("keyword", Str("one"))>>)>>)
        \o <<ElC("provides", <<ElA("firmware", [type |-> Str("flashed")],
                                    Str("abc"))>>)>>
        \o Part(parts, "requires",
                <<ElC("requires", <<ElA("id", [compare |-> Str("ge"),
                                              version |-> Str("0.8.2")],
                                       Str("org.freedesktop.fwupd"))>>)>>)
        \o <<ElC("releases",
                 <<Element("release",
                           Attrs([version |-> Str("1.2.4"),
                                  timestamp |-> <<"1", "7">>,
                                  urgency |-> Str("high")]),
                           None,
                           <<ElA("size", [type |-> Str("installed")],
                                 <<"1", "2">>)>>
                           \o Part(parts, "checksum",
                                   <<ElA("checksum",
                                         [target |-> T_content,
                                          filename |-> Str("firmware.bin"),
                                          type |-> Str("sha256")],
                                         Str("deadbeef"))>>))>>)>>
        \o Part(parts, "reviews",
                <<ElC("reviews",
                      <<Element("review",
                                Attrs([id |-> Str("17"),
                                       date |-> Str("2016-09-15"),
                                       rating |-> <<"8", "0">>]),
                                None,
                                <<El("summary", Str("Hello world")),
                                  El("lang", Str("en_GB"))>>)>>)>>)
        \o <<ElC("screenshots",
                 <<Element("screenshot", Attrs([type |-> Str("default")]),
                           None,
                           <<ElA("image", [type |-> Str("source")],
                                 Str("http://a.png"))>>)>>)>>)

ConformantDocs ==
    {ConformantDoc(kind, parts) :
        kind \in {Str("firmware"), Str("desktop")},
        parts \in SUBSET OptionalParts}

\* app.parse(xml_data) on a new Component, xml_data a conformant document
ParseConformant ==
    /\ last.op = "init"
    /\ \E xml_data \in ConformantDocs :
        \E st \in {parse(PState(app, nextOid, NoExc), xml_data)} :
            /\ app' = st.obj
            /\ nextOid' = st.oid
            /\ last' = Last("parse", xml_data, st.exc, << >>)

\* c2 = Component(); c2.parse(out), out what c1.to_xml() returned or raised
RoundTripOf(c1, oid, out) ==
    IF out.exc # NoExc THEN PState(c1, oid, out.exc)
    ELSE parse(PState(Component, oid, NoExc), fromstring(out.xml))

\* xml = app.to_xml(); app = Component(); app.parse(xml): the Component
\* written and read back into a new one; last.arg is the one written
RoundTrip ==
    /\ last.op = "parse"
    /\ last.exc = NoExc
    /\ \E st \in {RoundTripOf(app, nextOid, to_xml(app))} :
            /\ app' = st.obj
            /\ nextOid' = st.oid
            /\ last' = Last("roundtrip", app, st.exc, << >>)

NextRoundTrip == ParseConformant \/ RoundTrip

SpecRoundTrip == Init /\ [][NextRoundTrip]_vars

---------------------------------------------------------------------------
(* Properties *)

\* some entry of a list has the key of the candidate
VersionOf(x) == x.version
IdOf(x) == x.id
ValueOf(x) == x.value
TargetOf(x) == x.target
KindOf(x) == x.kind

HasKey(list, Key(_), candidate) ==
    \E i \in 1..Len(list) : Key(list[i]) = Key(candidate)

\* a first-wins add: nothing changes if the key is held, otherwise the
\* candidate goes last and nothing else changes
FirstWins(field, Key(_), candidate) ==
    IF HasKey(app[field], Key, candidate)
    THEN app' = app
    ELSE app' = [app EXCEPT ![field] = Append(app[field], candidate)]

\* the <release> elements of a document, in document order
ReleaseNodes(xml_data) ==
    Join([i \in 1..Len(xml_data.root.children) |->
            IF xml_data.root.children[i].tag = "releases"
            THEN SelectSeq(xml_data.root.children[i].children,
                           LAMBDA c : c.tag = "release")
            ELSE << >>], << >>)

\* the entries of a list whose key is k
WithKey(list, Key(_), k) == {i \in 1..Len(list) : Key(list[i]) = k}

\* after a parse that returned: each version written (not in hex) on a
\* <release> of the document is the version of exactly one Release, and
\* if the Component held none of that version before, that Release has the
\* urgency and the timestamp attribute of the first such <release>
C1_ParseKeepsFirst ==
    LET nodes == ReleaseNodes(last'.arg)
    IN  \A j \in 1..Len(nodes) :
            LET v     == nodes[j].attrib["version"]
                first == Min({k \in 1..Len(nodes) : nodes[k].attrib["version"] = v})
                kept  == WithKey(app'.releases, VersionOf, v)
            IN  ~StartsWith(v, <<"0", "x">>) =>
                    /\ Cardinality(kept) = 1
                    /\ WithKey(app.releases, VersionOf, v) = {} =>
                         \A i \in kept :
                            /\ app'.releases[i].urgency
                                    = nodes[first].attrib["urgency"]
                            /\ HasAttr(nodes[first], "timestamp")
                                    /\ ~HasAttr(nodes[first], "date") =>
                                 IntStr(app'.releases[i].timestamp)
                                    = nodes[first].attrib["timestamp"]

\* C1: add_release (key version), add_review (key id), add_provide and
\* add_require (key value) change nothing if an entry has the candidate's
\* key, and otherwise append the candidate and change nothing else; so a
\* parse of several <release> of one version keeps one Release, the first.
C1_FirstWinsAdd ==
    [][/\ last'.op = "add_release" =>
            FirstWins("releases", VersionOf, last'.arg)
       /\ last'.op = "add_review" =>
            FirstWins("reviews", IdOf, last'.arg)
       /\ last'.op = "add_provide" =>
            FirstWins("provides", ValueOf, last'.arg)
       /\ last'.op = "add_require" =>
            FirstWins("requires", ValueOf, last'.arg)
       /\ (last'.op = "parse" /\ last'.exc = NoExc) => C1_ParseKeepsFirst]_vars

\* a release was passed whose version another Release already held
C1_Witness ==
    /\ last.op = "add_release"
    /\ \E i \in 1..Len(app.releases) :
            /\ app.releases[i].version = last.arg.version
            /\ app.releases[i].oid # last.arg.oid

\* no two entries of a list have the same key
UniqueKeys(list, Key(_)) ==
    \A i, j \in 1..Len(list) : Key(list[i]) = Key(list[j]) => i = j

\* a replacing add: given at most one entry per key before, exactly one
\* entry has the candidate's key after, it is the candidate, it is last,
\* and the entries of the other keys come before it in their old order
ReplaceAndAppend(old, new, Key(_), candidate) ==
    UniqueKeys(old, Key) =>
        /\ Cardinality(WithKey(new, Key, Key(candidate))) = 1
        /\ new[Len(new)] = candidate
        /\ SubSeq(new, 1, Len(new) - 1)
                = SelectSeq(old, LAMBDA e : Key(e) # Key(candidate))

C3_NaturalKeysUnique ==
    /\ UniqueKeys(app.releases, VersionOf)
    /\ \A i \in 1..Len(app.releases) :
            UniqueKeys(app.releases[i].checksums, TargetOf)
    /\ \A i \in 1..Len(app.screenshots) :
            UniqueKeys(app.screenshots[i].images, KindOf)

\* the <checksum> children of a <release> element
ChecksumNodes(node) == SelectSeq(node.children, LAMBDA c : c.tag = "checksum")

\* a document was parsed in which one <release> held two <checksum>
\* elements of one target, and its Release is held
C3_Witness ==
    /\ last.op = "parse"
    /\ last.exc = NoExc
    /\ Len(app.releases) >= 1
    /\ \E j \in 1..Len(ReleaseNodes(last.arg)) :
            Len(ChecksumNodes(ReleaseNodes(last.arg)[j]))
                > Len(app.releases[Len(app.releases)].checksums)

\* the collection an add operation works on, in a Component
Collection(self, op, at) ==
    IF op = "add_release" THEN self.releases
    ELSE IF op = "add_review" THEN self.reviews
    ELSE IF op = "add_provide" THEN self.provides
    ELSE IF op = "add_require" THEN self.requires
    ELSE IF op = "add_checksum" THEN self.releases[at].checksums
    ELSE self.screenshots[at].images

KeyedAdds ==
    {"add_release", "add_review", "add_provide", "add_require",
     "add_checksum", "add_image"}

\* C4: when one of add_release, add_review, add_provide, add_require,
\* add_checksum, add_image is called twice in a row on one receiver with
\* entities of one natural key, the second call leaves the length of the
\* collection as the first left it; the entry of that key is then the
\* second entity for add_checksum and add_image, and the entry the first
\* call left for the others.
C4_IdempotentAdd ==
    [][(/\ last.op \in KeyedAdds
        /\ last'.op = last.op
        /\ last'.at = last.at
        /\ KeyFor(last.op, last'.arg) = KeyFor(last.op, last.arg)) =>
            LET old == Collection(app, last.op, last.at)
                new == Collection(app', last.op, last.at)
                Key(x) == KeyFor(last.op, x)
            IN  /\ Len(new) = Len(old)
                /\ \A i \in WithKey(new, Key, Key(last'.arg)) :
                        IF last.op \in {"add_checksum", "add_image"}
                        THEN new[i] = last'.arg
                        ELSE i \in WithKey(old, Key, Key(last'.arg))
                                /\ new[i] = old[i]]_vars

\* an add was repeated with a second object of the same key
C4_Witness ==
    /\ last.again
    /\ last.op \in KeyedAdds
    /\ \E i \in 1..Len(last.before) :
            /\ KeyFor(last.op, last.before[i]) = KeyFor(last.op, last.arg)
            /\ last.before[i].oid # last.arg.oid

\* a field holds a non-empty text
NonEmpty(value) == value # None /\ Len(value) > 0

\* the rules of the validator in their order, each with whether self breaks
\* it and the message of its ValidationError
ReleaseRules(releases) ==
    Join([i \in 1..Len(releases) |->
            <<[broken |-> ~NonEmpty(releases[i].version),
               msg |-> "No version in <release> tag"],
              [broken |-> releases[i].timestamp = 0,
               msg |-> "No timestamp in <release> tag"]>>], << >>)

Rules(self) ==
    <<[broken |-> ~NonEmpty(self.id), msg |-> "No <id> tag"],
      [broken |-> ~NonEmpty(self.name), msg |-> "No <name> tag"],
      [broken |-> ~NonEmpty(self.summary), msg |-> "No <summary> tag"],
      [broken |-> ~NonEmpty(self.description), msg |-> "No <description> tag"],
      [broken |-> self.kind = Str("firmware") /\ self.provides = << >>,
       msg |-> "No <provides> tag"],
      [broken |-> self.kind = Str("firmware") /\ self.releases = << >>,
       msg |-> "No <release> tag"],
      [broken |-> self.kind = Str("desktop") /\ self.screenshots = << >>,
       msg |-> "No <screenshot> tag"],
      [broken |-> ~NonEmpty(self.metadata_license),
       msg |-> "No <metadata_license> tag"],
      [broken |-> self.metadata_license \notin
                    {Str("CC0-1.0"), Str("CC-BY-3.0"), Str("CC-BY-4.0"),
                     Str("CC-BY-SA-3.0"), Str("CC-BY-SA-4.0"), Str("GFDL-1.1"),
                     Str("GFDL-1.2"), Str("GFDL-1.3"), Str("FSFAP")},
       msg |-> "Invalid <metadata_license> tag"],
      [broken |-> ~NonEmpty(self.project_license),
       msg |-> "No <project_license> tag"],
      [broken |-> ~NonEmpty(self.developer_name),
       msg |-> "No <developer_name> tag"]>>
    \o ReleaseRules(self.releases)

Broken(self) == {i \in 1..Len(Rules(self)) : Rules(self)[i].broken}

\* every field but the provides is as the validator wants it
ValidButProvides(self) == Broken(self) = {5}

\* C5: a validate() that fails raises the ValidationError of the earliest
\* broken rule in the order id, name, summary, description, (firmware:
\* provides, releases), (desktop: screenshots), metadata_license present,
\* metadata_license on the list, project_license, developer_name, then for
\* each release in order version, timestamp; a firmware Component without
\* provides and nothing else wrong fails with the provides rule.
C5_FailFastOrder ==
    last.op = "validate" =>
        /\ last.exc = "ValidationError" =>
                /\ Broken(app) # {}
                /\ last.out = Rules(app)[Min(Broken(app))].msg
        /\ ValidButProvides(app) =>
                /\ last.exc = "ValidationError"
                /\ last.out = "No <provides> tag"

\* validate failed on a Component that breaks several rules, one of them a
\* rule of its second release
C5_Witness ==
    /\ last.op = "validate"
    /\ last.exc = "ValidationError"
    /\ Cardinality(Broken(app)) >= 3
    /\ Len(app.releases) = 2
    /\ Broken(app) \cap {14, 15} # {}
    /\ Min(Broken(app)) >= 5

\* C6: validate() succeeds exactly if id, name, summary, description,
\* project_license and developer_name are non-empty, metadata_license is one
\* of the nine licences, a firmware has a provide and a release, a desktop a
\* screenshot, and every release has a non-empty version and a non-zero
\* timestamp.
C6_SoundAndComplete ==
    last.op = "validate" =>
        (last.exc = NoExc <=>
            /\ \A f \in {"id", "name", "summary", "description",
                         "project_license", "developer_name"} :
                    NonEmpty(app[f])
            /\ app.metadata_license \in
                    {Str("CC0-1.0"), Str("CC-BY-3.0"), Str("CC-BY-4.0"),
                     Str("CC-BY-SA-3.0"), Str("CC-BY-SA-4.0"), Str("GFDL-1.1"),
                     Str("GFDL-1.2"), Str("GFDL-1.3"), Str("FSFAP")}
            /\ app.kind = Str("firmware") =>
                    Len(app.provides) >= 1 /\ Len(app.releases) >= 1
            /\ app.kind = Str("desktop") => Len(app.screenshots) >= 1
            /\ \A i \in 1..Len(app.releases) :
                    /\ NonEmpty(app.releases[i].version)
                    /\ app.releases[i].timestamp # 0)

\* validate succeeded on a firmware with releases
C6_Witness ==
    /\ last.op = "validate"
    /\ last.exc = NoExc
    /\ last.out = Ok
    /\ app.kind = Str("firmware")
    /\ Len(app.releases) >= 1

\* C7: validate() and to_xml(), returning or raising, leave every field of
\* the Component and of the entities it holds as they were.
C7_ReadOnly ==
    [][last'.op \in {"validate", "to_xml"} => app' = app]_vars

\* to_xml raised on a Component that holds a release and a bundle
C7_Witness ==
    /\ last.op = "to_xml"
    /\ last.exc # NoExc
    /\ app.releases # << >>
    /\ app.bundle # << >>

\* the <release> of the document parsed last, and the Release made of it
ParsedNode == ReleaseNodes(last.arg)[1]
ParsedRelease == app.releases[1]

\* a parse of one <release> returned
ReleaseParsed ==
    /\ last.op = "parse"
    /\ last.exc = NoExc
    /\ Len(ReleaseNodes(last.arg)) = 1
    /\ Len(app.releases) = 1

\* C8, as the specification states it: with both attributes, the timestamp
\* attribute sets Release.timestamp.
C8_TimestampWins ==
    (/\ ReleaseParsed
     /\ HasAttr(ParsedNode, "timestamp")
     /\ HasAttr(ParsedNode, "date")) =>
        ParsedRelease.timestamp = IntOf(ParsedNode.attrib["timestamp"], 10)

\* C8: when a <release> carries both a timestamp and a date attribute and
\* the parse returns, Release.timestamp is the date in seconds since the
\* epoch (the date wins); with one of the two, that one sets the field;
\* with neither the field stays 0.
C8_DateWins ==
    ReleaseParsed =>
        IF HasAttr(ParsedNode, "date")
        THEN ParsedRelease.timestamp = DateEpoch(ParsedNode.attrib["date"])
        ELSE IF HasAttr(ParsedNode, "timestamp")
        THEN ParsedRelease.timestamp
                = IntOf(ParsedNode.attrib["timestamp"], 10)
        ELSE ParsedRelease.timestamp = 0

\* a <release> with timestamp 5 and date 2016-02-25 was parsed: the
\* Release has the seconds of the date
C8_Witness ==
    /\ ReleaseParsed
    /\ ParsedNode.attrib["timestamp"] = <<"5">>
    /\ ParsedNode.attrib["date"] = Str("2016-02-25")
    /\ ParsedRelease.timestamp = 1456358400

\* the number a text of hexadecimal digits, after an optional 0x, writes
HexNumber(text) ==
    DigitsValue(IF StartsWith(text, <<"0", "x">>)
                THEN SubSeq(text, 3, Len(text)) ELSE text, 16)

\* C9: a parsed <release> whose version attribute begins with 0x has as its
\* version the decimal string of the hexadecimal integer after the prefix
\* (0x0A gives 10); another version is stored as written.
C9_HexVersionFix ==
    (ReleaseParsed /\ HasAttr(ParsedNode, "version")) =>
        LET v == ParsedNode.attrib["version"]
        IN  /\ StartsWith(v, <<"0", "x">>) =>
                    ParsedRelease.version
                        = IntStr(HexNumber(SubSeq(v, 3, Len(v))))
            /\ ~StartsWith(v, <<"0", "x">>) => ParsedRelease.version = v
            /\ v = <<"0", "x", "0", "A">> =>
                    ParsedRelease.version = <<"1", "0">>
            /\ v = <<"0", "x", "1", "A">> =>
                    ParsedRelease.version = <<"2", "6">>

\* version 0x0A was parsed and is stored as 10
C9_Witness ==
    /\ ReleaseParsed
    /\ ParsedNode.attrib["version"] = <<"0", "x", "0", "A">>
    /\ ParsedRelease.version = <<"1", "0">>

ScalarFields == {"name", "pkgname", "summary", "description"}

\* the values of the <field> children of the document parsed last, in
\* document order, as the parser normalizes them
Occurrences(field) ==
    LET nodes == SelectSeq(last.arg.root.children, LAMBDA c : c.tag = field)
    IN  [i \in 1..Len(nodes) |->
            IF field = "description" THEN _parse_desc(nodes[i])
            ELSE _join_lines(nodes[i].text)]

\* a parse of a document into a new Component returned
ScalarsParsed ==
    /\ last.op = "parse"
    /\ last.exc = NoExc
    /\ last.arg.wellformed

\* C10, as the specification states it: the field holds the value of the
\* first occurrence, an empty one included.
C10_FirstOccurrence ==
    ScalarsParsed =>
        \A field \in ScalarFields :
            Occurrences(field) # << >> => app[field] = Occurrences(field)[1]

\* C10: after a document with several <name>, <pkgname>, <summary> or
\* <description> children is parsed into a new Component, the field holds
\* the value of the first occurrence whose value is not empty, and later
\* occurrences leave it unchanged; if every occurrence is empty the field
\* is empty, and with no occurrence it stays unset.
C10_FirstNonEmptyOccurrence ==
    ScalarsParsed =>
        \A field \in ScalarFields :
            LET values == Occurrences(field)
                filled == {i \in 1..Len(values) : values[i] # << >>}
            IN  IF values = << >> THEN app[field] = None
                ELSE IF filled = {} THEN app[field] = << >>
                ELSE app[field] = values[Min(filled)]

\* a blank <name>, then a <name> with a word, then another: the field has
\* the first word
C10_Witness ==
    /\ ScalarsParsed
    /\ Len(Occurrences("name")) = 3
    /\ Occurrences("name")[1] = << >>
    /\ Occurrences("name")[2] = <<"A">>
    /\ Occurrences("name")[3] = <<"B">>
    /\ app.name = <<"A">>

\* the fields of an entity that hold no entity
PlainFields(x) ==
    DOMAIN x \ {"oid", "checksums", "images", "releases", "reviews",
                "screenshots", "provides", "requires"}

\* every field of x1 that is not at its default is the same in x2
FieldsKept(x1, x2, default) ==
    \A f \in PlainFields(default) : x1[f] # default[f] => x2[f] = x1[f]

\* the same for the entities of two lists, one by one
ListKept(list1, list2, default) ==
    /\ Len(list2) = Len(list1)
    /\ \A i \in 1..Len(list1) : FieldsKept(list1[i], list2[i], default)

\* the same for a Component and all it holds
ComponentKept(c1, c2) ==
    /\ FieldsKept(c1, c2, Component)
    /\ ListKept(c1.provides, c2.provides, Provide(0))
    /\ ListKept(c1.requires, c2.requires, Require(0))
    /\ ListKept(c1.reviews, c2.reviews, Review(0))
    /\ ListKept(c1.releases, c2.releases, Release(0))
    /\ ListKept(c1.screenshots, c2.screenshots, Screenshot(0))
    /\ \A i \in 1..Len(c1.releases) :
            ListKept(c1.releases[i].checksums, c2.releases[i].checksums,
                     Checksum(0))
    /\ \A i \in 1..Len(c1.screenshots) :
            ListKept(c1.screenshots[i].images, c2.screenshots[i].images,
                     Image(0))

\* C11: a Component parsed from a conformant document, written by to_xml and
\* parsed into a new Component, gives a Component whose fields equal those
\* of the first wherever the first is not at its default (kind,
\* metadata_license, update_contact, Provide.kind, Checksum.kind,
\* Release.location and the Review fields included).
C11_RoundTrip ==
    last.op = "roundtrip" =>
        /\ last.exc = NoExc
        /\ ComponentKept(last.arg, app)

\* C12: parse() of text that is not well-formed XML raises ParseError and
\* leaves every field of the Component as it was before the call.
C12_ParseFailureAtomic ==
    [][(last'.op = "parse" /\ ~last'.arg.wellformed) =>
            /\ last'.exc = "ParseError"
            /\ app' = app]_vars

\* parse raised ParseError on a Component that holds a release
C12_Witness ==
    /\ last.op = "parse"
    /\ ~last.arg.wellformed
    /\ last.exc = "ParseError"
    /\ app.releases # << >>

\* the fields to_xml writes, in the order it is to write them, each with
\* whether the Component has something in it and the tag of its element
Written(self) ==
    <<[set |-> Truthy(self.id), tag |-> "id"],
      [set |-> Truthy(self.pkgname), tag |-> "pkgname"],
      [set |-> Truthy(self.name), tag |-> "name"],
      [set |-> Truthy(self.summary), tag |-> "summary"],
      [set |-> Truthy(self.developer_name), tag |-> "developer_name"],
      [set |-> Truthy(self.project_license), tag |-> "project_license"],
      [set |-> Truthy(self.description), tag |-> "description"],
      [set |-> self.bundle # << >>, tag |-> "bundle"],
      [set |-> self.urls # << >>, tag |-> "url"],
      [set |-> self.icons # << >>, tag |-> "icon"],
      [set |-> self.releases # << >>, tag |-> "releases"],
      [set |-> self.reviews # << >>, tag |-> "reviews"],
      [set |-> self.screenshots # << >>, tag |-> "screenshots"],
      [set |-> self.kudos # << >>, tag |-> "kudos"],
      [set |-> self.keywords # << >>, tag |-> "keywords"],
      [set |-> self.categories # << >>, tag |-> "categories"],
      [set |-> self.provides # << >>, tag |-> "provides"],
      [set |-> self.requires # << >>, tag |-> "requires"],
      [set |-> self.custom # << >>, tag |-> "custom"]>>

\* the elements of the <component> a text holds
TopElements(xml) == fromstring(xml).root.children

\* the place of a tag in the order
Rank(written, tag) == Min({i \in 1..Len(written) : written[i].tag = tag})

\* the elements are those of the non-empty fields, in the order
InOrder(elements, written) ==
    /\ \A i \in 1..Len(written) :
            written[i].set <=>
                \E k \in 1..Len(elements) : elements[k].tag = written[i].tag
    /\ \A k, l \in 1..Len(elements) :
            k < l => Rank(written, elements[k].tag)
                        <= Rank(written, elements[l].tag)

\* each entry of a mapping is written by one of the elements of a tag, and
\* each of them writes an entry
WrittenOnce(elements, tag, attr, dict) ==
    /\ Len(SelectSeq(elements, LAMBDA e : e.tag = tag)) = Len(dict)
    /\ \A i \in 1..Len(dict) :
            Cardinality({k \in 1..Len(elements) :
                            /\ elements[k].tag = tag
                            /\ elements[k].attrib[attr] = dict[i].key
                            /\ elements[k].text = dict[i].value}) = 1

\* the elements in the <custom> of a text
CustomElements(elements) ==
    Join([k \in 1..Len(elements) |->
            IF elements[k].tag = "custom" THEN elements[k].children
            ELSE << >>], << >>)

\* C13: to_xml() of every Component, one with a bundle and icons as parse
\* leaves them included, returns a text with the elements of the non-empty
\* fields in the order id, pkgname, name, summary, developer_name,
\* project_license, description, bundle, urls, icons, releases, reviews,
\* screenshots, kudos, keywords, categories, provides, requires, custom,
\* and with every entry of urls, icons and custom once.
C13_SerializerOrder ==
    last.op = "to_xml" =>
        /\ last.exc = NoExc
        /\ InOrder(TopElements(last.out), Written(app))
        /\ WrittenOnce(TopElements(last.out), "url", "type", app.urls)
        /\ Len(SelectSeq(TopElements(last.out), LAMBDA e : e.tag = "icon"))
                = Len(app.icons)
        /\ WrittenOnce(CustomElements(TopElements(last.out)), "value", "key",
                       app.custom)

\* two Screenshots have equal kind, caption and images
SameScreenshot(a, b) ==
    a.kind = b.kind /\ a.caption = b.caption /\ a.images = b.images

\* C14: add_screenshot(s) changes nothing exactly when a Screenshot of the
\* sequence has the kind, caption and images of s, and appends s otherwise;
\* two Screenshot objects with equal fields leave one entry.
C14_ScreenshotValueEquality ==
    last.op = "add_screenshot" =>
        IF \E i \in 1..Len(last.before) :
                SameScreenshot(last.before[i], last.arg)
        THEN app.screenshots = last.before
        ELSE app.screenshots = Append(last.before, last.arg)

\* C15: parse of a well-formed document completes without raising, the only
\* error parse raises is ParseError, and the only error validate raises is
\* ValidationError.
C15_TwoErrorKinds ==
    /\ last.op = "parse" =>
            /\ last.exc \in {NoExc, "ParseError"}
            /\ last.arg.wellformed => last.exc = NoExc
    /\ last.op = "validate" => last.exc \in {NoExc, "ValidationError"}

\* the tags with a case of their own below the root
RootTags ==
    Containers \cup
    {"id", "updatecontact", "update_contact", "metadata_license",
     "project_license", "licence", "developer_name", "name", "pkgname",
     "summary", "description", "url", "icon", "bundle"}

\* the tag is one that is recognized in an element of tag position
RecognizedAt(position, tag) ==
    IF position = "component" THEN tag \in RootTags
    ELSE IF position = "releases" THEN tag = "release"
    ELSE IF position = "reviews" THEN tag = "review"
    ELSE IF position = "screenshots" THEN tag = "screenshot"
    ELSE IF position = "provides" THEN tag = "firmware"
    ELSE IF position = "kudos" THEN tag = "kudo"
    ELSE IF position = "keywords" THEN tag = "keyword"
    ELSE IF position = "categories" THEN tag = "category"
    ELSE IF position = "custom" THEN tag = "value"
    ELSE TRUE

\* the element without the children whose tag is not recognized in it
WithoutUnrecognized(node) ==
    LET recognized(c) == RecognizedAt(node.tag, c.tag)
    IN  [node EXCEPT !.children = SelectSeq(@, recognized)]

\* the document without the unrecognized children of the root and of the
\* containers
Recognized(xml_data) ==
    LET root == WithoutUnrecognized(xml_data.root)
    IN  [xml_data EXCEPT !.root =
            [root EXCEPT !.children =
                [i \in 1..Len(root.children) |->
                    IF root.children[i].tag \in Containers
                    THEN WithoutUnrecognized(root.children[i])
                    ELSE root.children[i]]]]

\* C16: an element whose tag is not recognized at its position changes no
\* field and no collection: parse leaves the Component as the parse of the
\* document without these elements does, and a child of <provides> that is
\* no <firmware> adds no entry to provides.
C16_UnrecognizedIgnored ==
    [][(last'.op = "parse" /\ last'.arg.wellformed) =>
            app' = parse(PState(app, nextOid, NoExc),
                         Recognized(last'.arg)).obj]_vars

\* the children of the elements of a tag, one after the other
ChildrenOf(elements, tag) ==
    Join([k \in 1..Len(elements) |->
            IF elements[k].tag = tag THEN elements[k].children ELSE << >>],
         << >>)

\* the <checksum> elements of a text
ChecksumElements(elements) ==
    SelectSeq(ChildrenOf(ChildrenOf(elements, "releases"), "release"),
              LAMBDA e : e.tag = "checksum")

\* the Checksums of the releases of a Component
ChecksumsOf(self) ==
    UNION {Range(self.releases[i].checksums) : i \in 1..Len(self.releases)}

\* an attribute of an element is written only with the set value that a
\* field has in one of the objects
AttrOnlyIfSet(elements, attr, objects, field) ==
    \A k \in 1..Len(elements) :
        HasAttr(elements[k], attr) =>
            \E o \in objects :
                Truthy(o[field]) /\ elements[k].attrib[attr] = o[field]

\* a container element of the text holds at least one element
NoEmptyContainer(elements) ==
    \A k \in 1..Len(elements) :
        elements[k].tag \in Containers => elements[k].children # << >>

\* C17: to_xml() writes an element or attribute of a field only when the
\* field is set, and a container element only with at least one child: no
\* filename or target of a Checksum and no value of a Provide that was never
\* set is in the text, and no <requires> without a child.
C17_OmitIfDefault ==
    (last.op = "to_xml" /\ last.exc = NoExc) =>
        /\ NoEmptyContainer(TopElements(last.out))
        /\ AttrOnlyIfSet(ChecksumElements(TopElements(last.out)), "filename",
                         ChecksumsOf(app), "filename")
        /\ AttrOnlyIfSet(ChecksumElements(TopElements(last.out)), "target",
                         ChecksumsOf(app), "target")
        /\ \A k \in 1..Len(ChildrenOf(TopElements(last.out), "provides")) :
                \E p \in Range(app.provides) :
                    /\ Truthy(p.value)
                    /\ ChildrenOf(TopElements(last.out), "provides")[k].text
                            = p.value

\* the targets and the kinds looked up: those the callers add, and one
\* that is never added
LookupTargets == {T_content, T_container, Str("signature")}

LookupKinds == {None, Str("source"), Str("thumbnail")}

\* what a lookup returned is None, a pair of tokens, and no object, a record
\* of more fields
IsNone(found) == Cardinality(DOMAIN found) = Cardinality(DOMAIN None)

\* two lookups returned the same: None both, or the same object
SameFound(a, b) ==
    IF IsNone(a) \/ IsNone(b) THEN IsNone(a) /\ IsNone(b) ELSE a = b

\* C18: on a newly constructed Release every get_checksum_by_target is None;
\* add_checksum(c) makes get_checksum_by_target(c.target) return c and
\* leaves the lookup of every other target as it was; likewise add_image and
\* get_image_by_kind on a Screenshot.  By induction over the calls the
\* lookup returns the object most recently added with the target or kind,
\* and None exactly when none was added.
C18_LookupConsistency ==
    [][/\ (last'.op = "add_release" /\ last'.arg.oid = nextOid) =>
            \A t \in LookupTargets :
                IsNone(get_checksum_by_target(last'.arg, t))
       /\ (last'.op = "add_screenshot" /\ last'.arg.oid = nextOid) =>
            \A k \in LookupKinds : IsNone(get_image_by_kind(last'.arg, k))
       /\ last'.op = "add_checksum" =>
            \A t \in LookupTargets :
                SameFound(get_checksum_by_target(app'.releases[last'.at], t),
                          IF t = last'.arg.target THEN last'.arg
                          ELSE get_checksum_by_target(app.releases[last'.at],
                                                      t))
       /\ last'.op = "add_image" =>
            \A k \in LookupKinds :
                SameFound(get_image_by_kind(app'.screenshots[last'.at], k),
                          IF k = last'.arg.kind THEN last'.arg
                          ELSE get_image_by_kind(app.screenshots[last'.at], k))
      ]_vars

\* a checksum has taken the place of an older one of its target in a release
\* that holds a checksum of another target too, and is what the lookup returns
C18_Witness ==
    /\ last.op = "add_checksum"
    /\ \E k \in 1..Len(last.before) :
            /\ last.before[k].target = last.arg.target
            /\ last.before[k].oid # last.arg.oid
    /\ \E k \in 1..Len(last.before) : last.before[k].target # last.arg.target
    /\ get_checksum_by_target(app.releases[last.at], last.arg.target) = last.arg
    /\ IsNone(get_checksum_by_target(app.releases[last.at], Str("signature")))

=============================================================================
